---- MODULE Spec2Model ----
(***************************************************************************)
(* Model of batchCompareWithMaskedReport.py: the EDI envelope parser       *)
(* (parse_edi), the date/time masking pass (mask_dates_times), the pair    *)
(* comparator (compare_pair) and the batch folder loop.                    *)
(*                                                                         *)
(* A Python str is a sequence of one-character strings, so that split,     *)
(* join, startswith, strip and indexing are computed as Python computes    *)
(* them.  A Python dict is a function whose DOMAIN is its key set.         *)
(* HTML rendering (summary_html, original_diff, masked_diff) is            *)
(* presentation and is not modelled.                                       *)
(***************************************************************************)
EXTENDS Integers, Sequences, FiniteSets, TLC

VARIABLES
    pc,                 \* position of the running operation
    \* parse_edi, one segment per step
    edi_content, data_element_sep, parsed, capture_payload, seg_idx,
    \* mask_dates_times
    segments, mask_sep, masked_segments,
    \* compare_pair
    file1_content, file2_content, compare,
    \* batch folder processing
    from_files, to_files_map, results, all_report_data, file_idx

vars == <<pc, edi_content, data_element_sep, parsed, capture_payload, seg_idx,
          segments, mask_sep, masked_segments,
          file1_content, file2_content, compare,
          from_files, to_files_map, results, all_report_data, file_idx>>

parseVars == <<edi_content, data_element_sep, parsed, capture_payload, seg_idx>>
maskVars == <<segments, mask_sep, masked_segments>>
compareVars == <<file1_content, file2_content, compare>>
batchVars == <<from_files, to_files_map, results, all_report_data, file_idx>>

(***************************************************************************)
(* Bounds of the explored inputs.                                          *)
(***************************************************************************)
MaxSegs == 4        \* segments of a document given to the stepwise parser
MaxPayload == 2     \* payload segments given to mask_dates_times
MaxDocPayload == 1  \* payload segments of a document given to compare_pair
MaxFrom == 3        \* uploaded FROMDATA files

(***************************************************************************)
(* Python str / list primitives.                                           *)
(***************************************************************************)
EmptyStr == << >>
EmptyDict == [k \in {} |-> EmptyStr]

\* d.get(k, '')
Get(d, k) == IF k \in DOMAIN d THEN d[k] ELSE EmptyStr

\* s.find(c) + 1 for a one-character c (0 when absent)
find(s, c) ==
    IF \E i \in 1..Len(s) : s[i] = c
    THEN CHOOSE i \in 1..Len(s) : s[i] = c /\ \A j \in 1..(i-1) : s[j] # c
    ELSE 0

\* s.split(sep) for a one-character sep: never empty, ''.split(sep) = ['']
RECURSIVE split(_, _)
split(s, sep) ==
    LET i == find(s, sep) IN
    IF i = 0 THEN <<s>>
    ELSE <<SubSeq(s, 1, i-1)>> \o split(SubSeq(s, i+1, Len(s)), sep)

\* sep.join(parts) for a one-character sep
RECURSIVE join(_, _)
join(sep, parts) ==
    IF Len(parts) = 0 THEN EmptyStr
    ELSE IF Len(parts) = 1 THEN parts[1]
    ELSE parts[1] \o <<sep>> \o join(sep, Tail(parts))

\* s.startswith(p)
startswith(s, p) == Len(s) >= Len(p) /\ SubSeq(s, 1, Len(p)) = p

Whitespace == {" ", "\t", "\n", "\r", "\f"}

\* s.strip()
RECURSIVE lstrip(_)
lstrip(s) ==
    IF Len(s) > 0 /\ s[1] \in Whitespace THEN lstrip(Tail(s)) ELSE s

RECURSIVE rstrip(_)
rstrip(s) ==
    IF Len(s) > 0 /\ s[Len(s)] \in Whitespace
    THEN rstrip(SubSeq(s, 1, Len(s)-1)) ELSE s

strip(s) == rstrip(lstrip(s))

\* a run one character longer than the value it replaces
hashes_one_longer(n) == [i \in 1..(n+1) |-> "#"]

\* "#" * n
hashes(n) == [i \in 1..n |-> "#"]

\* elements[i] if len(elements) > i else ''     (i is a Python, 0-based index)
elem(elements, i) == IF Len(elements) > i THEN elements[i+1] ELSE EmptyStr

TagISA == <<"I", "S", "A">>
TagGS == <<"G", "S">>
TagST == <<"S", "T">>
TagSE == <<"S", "E">>
TagBEG == <<"B", "E", "G">>
TagDTM == <<"D", "T", "M">>

(***************************************************************************)
(* parse_edi                                                               *)
(***************************************************************************)
IsaMinLen == 106

\* indices of the segments that start with "ISA"
isa_positions(segs) == {i \in 1..Len(segs) : startswith(segs[i], TagISA)}

\* next(seg for seg in edi_content.split('~') if seg.startswith('ISA'))
first_isa(segs) ==
    LET p == isa_positions(segs) IN
    CHOOSE i \in p : \A j \in p : i <= j

\* "None", or the exception the head of parse_edi raises
parse_raises(content) ==
    LET segs == split(content, "~") IN
    IF isa_positions(segs) = {} THEN "ValueError"
    ELSE IF Len(segs[first_isa(segs)]) < 4 THEN "IndexError"
    ELSE "None"

separators_of(content) ==
    LET segs == split(content, "~")
        isa_segment == segs[first_isa(segs)]
    IN [data_element |-> isa_segment[4],
        sub_element |-> IF Len(isa_segment) >= IsaMinLen
                        THEN isa_segment[Len(isa_segment) - 1] ELSE ":",
        segment |-> "~"]

isa_dict(elements) ==
    [sender_qualifier |-> elem(elements, 5),
     sender_id |-> strip(elem(elements, 6)),
     receiver_qualifier |-> elem(elements, 7),
     receiver_id |-> strip(elem(elements, 8)),
     control_number |-> elem(elements, 13)]

gs_dict(elements) ==
    [gs01 |-> elem(elements, 1),
     gs02 |-> elem(elements, 2),
     gs03 |-> elem(elements, 3)]

\* a loop body in which an SE segment does not end the capture
parse_segment_ignoring_se(st, segment, sep) ==
    LET elements == split(segment, sep) IN
    IF elements[1] = EmptyStr THEN st
    ELSE IF elements[1] = TagISA
         THEN [st EXCEPT !.results.isa = isa_dict(elements)]
    ELSE IF elements[1] = TagGS
         THEN [st EXCEPT !.results.gs = gs_dict(elements)]
    ELSE IF elements[1] = TagST THEN [st EXCEPT !.capture_payload = TRUE]
    ELSE IF elements[1] = TagSE THEN st
    ELSE IF st.capture_payload /\ segment # EmptyStr
         THEN [st EXCEPT !.results.inner_payload = Append(@, segment)]
    ELSE st

\* the body of "for segment in segments", on st = [results, capture_payload]
parse_segment(st, segment, sep) ==
    LET elements == split(segment, sep) IN
    IF elements[1] = EmptyStr THEN st
    ELSE IF elements[1] = TagISA
         THEN [st EXCEPT !.results.isa = isa_dict(elements)]
    ELSE IF elements[1] = TagGS
         THEN [st EXCEPT !.results.gs = gs_dict(elements)]
    ELSE IF elements[1] = TagST THEN [st EXCEPT !.capture_payload = TRUE]
    ELSE IF elements[1] = TagSE THEN [st EXCEPT !.capture_payload = FALSE]
    ELSE IF st.capture_payload /\ segment # EmptyStr
         THEN [st EXCEPT !.results.inner_payload = Append(@, segment)]
    ELSE st

\* results and capture_payload as initialised before the loop
parse_start(content) ==
    [results |-> [separators |-> separators_of(content),
                  isa |-> EmptyDict, gs |-> EmptyDict,
                  inner_payload |-> << >>],
     capture_payload |-> FALSE]

RECURSIVE parse_loop(_, _, _)
parse_loop(st, segs, sep) ==
    IF Len(segs) = 0 THEN st
    ELSE parse_loop(parse_segment(st, Head(segs), sep), Tail(segs), sep)

\* parse_edi(edi_content) when it does not raise
parse_edi(content) ==
    LET st0 == parse_start(content) IN
    parse_loop(st0, split(content, "~"), st0.results.separators.data_element).results

(***************************************************************************)
(* mask_dates_times                                                        *)
(***************************************************************************)
\* a masking that handles BEG and leaves DTM segments untouched
mask_elements_beg_only(elements) ==
    IF elements[1] = TagBEG /\ Len(elements) > 5
    THEN [elements EXCEPT ![6] = hashes(Len(@))]
    ELSE elements

\* the masking of one split segment (the body of the try block)
mask_elements(elements) ==
    IF elements[1] = TagBEG /\ Len(elements) > 5
    THEN [elements EXCEPT ![6] = hashes(Len(@))]
    ELSE IF elements[1] = TagDTM
    THEN LET e2 == IF Len(elements) > 2 /\ elements[3] # EmptyStr
                   THEN [elements EXCEPT ![3] = hashes(Len(@))] ELSE elements
         IN IF Len(e2) > 3 /\ e2[4] # EmptyStr
            THEN [e2 EXCEPT ![4] = hashes(Len(@))] ELSE e2
    ELSE elements

\* a masking pass that drops a BEG or DTM segment too short to mask
mask_segment_dropping(seg, sep) ==
    LET elements == split(seg, sep) IN
    IF \/ (elements[1] = TagBEG /\ Len(elements) <= 5)
       \/ (elements[1] = TagDTM /\ Len(elements) <= 3)
    THEN << >>
    ELSE <<join(sep, mask_elements(elements))>>

\* one iteration of "for seg in segments": the segments appended for seg.
\* "not elements" cannot hold (split never returns an empty list) and no
\* index is read unguarded, so neither "continue" is ever taken.
mask_segment(seg, sep) ==
    LET elements == split(seg, sep) IN
    IF Len(elements) = 0 THEN << >>
    ELSE <<join(sep, mask_elements(elements))>>

RECURSIVE mask_dates_times(_, _)
mask_dates_times(segs, sep) ==
    IF Len(segs) = 0 THEN << >>
    ELSE mask_segment(Head(segs), sep) \o mask_dates_times(Tail(segs), sep)

(***************************************************************************)
(* compare_pair                                                            *)
(***************************************************************************)
isa_fields == {"sender_qualifier", "sender_id", "receiver_qualifier", "receiver_id"}
gs_fields == {"gs01", "gs02", "gs03"}

\* "None", or the exception compare_pair propagates from parse_edi
compare_raises(content1, content2) ==
    IF parse_raises(content1) # "None" THEN parse_raises(content1)
    ELSE parse_raises(content2)

isa_match_of(parsed1, parsed2) ==
    \A k \in isa_fields : Get(parsed1.isa, k) = Get(parsed2.isa, k)

gs_match_of(parsed1, parsed2) ==
    \A k \in gs_fields : Get(parsed1.gs, k) = Get(parsed2.gs, k)

masked_text(p) ==
    join("\n", mask_dates_times(p.inner_payload, p.separators.data_element))

\* a comparison that masks the first document only
masked_match_one_sided(parsed1, parsed2) ==
    masked_text(parsed1) = join("\n", parsed2.inner_payload)

masked_match_of(parsed1, parsed2) == masked_text(parsed1) = masked_text(parsed2)

\* compare_pair(...) when it does not raise
compare_pair(file1_name, file2_name, content1, content2) ==
    LET parsed1 == parse_edi(content1)
        parsed2 == parse_edi(content2)
        isa_match == isa_match_of(parsed1, parsed2)
        gs_match == gs_match_of(parsed1, parsed2)
        masked_match == masked_match_of(parsed1, parsed2)
    IN [isa_match |-> isa_match,
        gs_match |-> gs_match,
        masked_match |-> masked_match,
        report_data |->
            [file1_name |-> file1_name,
             file2_name |-> file2_name,
             isa_sender_qualifier |-> Get(parsed1.isa, "sender_qualifier"),
             isa_sender_id |-> Get(parsed1.isa, "sender_id"),
             isa_receiver_qualifier |-> Get(parsed1.isa, "receiver_qualifier"),
             isa_receiver_id |-> Get(parsed1.isa, "receiver_id"),
             gs01 |-> Get(parsed1.gs, "gs01"),
             gs02 |-> Get(parsed1.gs, "gs02"),
             gs03 |-> Get(parsed1.gs, "gs03"),
             isa_match |-> isa_match,
             gs_match |-> gs_match,
             masked_match |-> masked_match]]

(***************************************************************************)
(* Input texts, built with the str primitives above.                       *)
(***************************************************************************)
Seps == {"*", "#", "|", "T"}

\* ISA segment with sender id snd and control number ctl, delimited by sep
IsaSeg(sep, snd, ctl) ==
    join(sep, <<TagISA, <<"0">>, <<"0">>, <<"0">>, <<"0">>, <<"Z">>, snd, <<"Z">>,
                <<"R", " ">>, <<"0">>, <<"0">>, <<"0">>, <<"0">>, ctl>>)
GsSeg(sep, g2) == join(sep, <<TagGS, <<"P">>, g2, <<"7">>>>)
StSeg(sep) == join(sep, <<TagST, <<"8">>>>)
SeSeg(sep) == join(sep, <<TagSE, <<"1">>>>)
N1Seg(sep) == join(sep, <<<<"N", "1">>, <<"X">>>>)
\* DTM segment with a date, and with a date and a time
DtmSeg(sep, date) == join(sep, <<TagDTM, <<"1">>, date>>)
DtmTimeSeg(sep, date, time) == join(sep, <<TagDTM, <<"1">>, date, time>>)
DtmNoDate(sep) == join(sep, <<TagDTM, <<"1">>>>)
\* BEG segment with 6 elements (date at index 5), and with 5 elements
BegSeg(sep, date) == join(sep, <<TagBEG, <<"0">>, <<"1">>, <<"2">>, <<"3">>, date>>)
BegShort(sep) == join(sep, <<TagBEG, <<"0">>, <<"1">>, <<"2">>, <<"3">>>>)

\* all sequences over S of length lo..hi
SeqsOf(S, lo, hi) == UNION {[1..n -> S] : n \in lo..hi}

MaskPool ==
    UNION {{DtmSeg(s, <<"2", "4">>), DtmTimeSeg(s, <<"2", "4">>, <<"9">>),
            DtmTimeSeg(s, EmptyStr, <<"9">>), DtmNoDate(s),
            BegSeg(s, <<"0", "1">>), BegShort(s)} : s \in {"*", "#"}}
    \cup {N1Seg("*"), EmptyStr}

(***************************************************************************)
(* mask_dates_times applied to a payload, then to its own output.          *)
(***************************************************************************)
IdleParse ==
    /\ edi_content = EmptyStr /\ data_element_sep = "" /\ parsed = EmptyDict
    /\ capture_payload = FALSE /\ seg_idx = 0
IdleMask == segments = << >> /\ mask_sep = "" /\ masked_segments = << >>
IdleCompare ==
    file1_content = EmptyStr /\ file2_content = EmptyStr /\ compare = EmptyDict
IdleBatch ==
    /\ from_files = << >> /\ to_files_map = EmptyDict /\ results = EmptyDict
    /\ all_report_data = << >> /\ file_idx = 0

InitMask ==
    /\ pc = "mask_call"
    /\ segments \in SeqsOf(MaskPool, 0, MaxPayload)
    /\ mask_sep \in Seps
    /\ masked_segments = << >>
    /\ IdleParse /\ IdleCompare /\ IdleBatch

\* masked = mask_dates_times(segments, sep)
MaskCall ==
    /\ pc = "mask_call"
    /\ masked_segments' = mask_dates_times(segments, mask_sep)
    /\ pc' = "mask_returned"
    /\ UNCHANGED <<segments, mask_sep, parseVars, compareVars, batchVars>>

\* the output is given back as the input: mask_dates_times(masked, sep)
MaskAgain ==
    /\ pc = "mask_returned"
    /\ segments' = masked_segments
    /\ masked_segments' = mask_dates_times(masked_segments, mask_sep)
    /\ pc' = "mask_again"
    /\ UNCHANGED <<mask_sep, parseVars, compareVars, batchVars>>

NextMask == MaskCall \/ MaskAgain
SpecMask == InitMask /\ [][NextMask]_vars

\* C5: masking is idempotent: masking the output of mask_dates_times again,
\* with the same element delimiter, returns that output unchanged.
C5_MaskIdempotent == pc = "mask_again" => masked_segments = segments

\* a '#'-delimited DTM segment whose date was masked has been masked again
C5_Witness ==
    /\ pc = "mask_again"
    /\ mask_sep = "#"
    /\ \E i \in 1..Len(segments) : segments[i] = DtmSeg("#", <<"#", "#">>)

\* the elements of out and of inp, split on sep, are equally many and differ
\* only at index 5 of a BEG segment and at indices 2 and 3 of a DTM segment
SameElementsButMasked(inp, out, sep) ==
    LET ei == split(inp, sep)
        eo == split(out, sep)
    IN /\ Len(eo) = Len(ei)
       /\ \A j \in 1..Len(ei) :
            eo[j] # ei[j] => \/ (ei[1] = TagBEG /\ j = 6)
                             \/ (ei[1] = TagDTM /\ j \in {3, 4})

\* the segment cannot be masked: not BEG or DTM, or too few elements
TooShortToMask(inp, sep) ==
    LET ei == split(inp, sep) IN
    \/ ei[1] \notin {TagBEG, TagDTM}
    \/ (ei[1] = TagBEG /\ Len(ei) <= 5)
    \/ (ei[1] = TagDTM /\ Len(ei) <= 2)

\* C10 as stated: for every payload and every element delimiter the output has
\* as many segments as the input, and each output segment has the tag, the
\* number of elements and the length of its input segment and differs from it
\* only at element 5 of BEG and elements 2, 3 of DTM; a segment too short to
\* mask is passed through unchanged.
C10_AsStated ==
    pc = "mask_returned" =>
        /\ Len(masked_segments) = Len(segments)
        /\ \A i \in 1..Len(segments) :
            /\ split(masked_segments[i], mask_sep)[1] = split(segments[i], mask_sep)[1]
            /\ Len(masked_segments[i]) = Len(segments[i])
            /\ SameElementsButMasked(segments[i], masked_segments[i], mask_sep)
            /\ TooShortToMask(segments[i], mask_sep) => masked_segments[i] = segments[i]

\* C10 amended: segment count, order, tag and character length are kept for
\* every delimiter, every changed character is '#', and a segment too short to
\* mask is unchanged; the element count and the element-wise comparison are
\* kept for every delimiter other than '#'.
C10_MaskKeepsShape ==
    pc = "mask_returned" =>
        /\ Len(masked_segments) = Len(segments)
        /\ \A i \in 1..Len(segments) :
            /\ split(masked_segments[i], mask_sep)[1] = split(segments[i], mask_sep)[1]
            /\ Len(masked_segments[i]) = Len(segments[i])
            /\ \A c \in 1..Len(segments[i]) :
                 masked_segments[i][c] # segments[i][c] => masked_segments[i][c] = "#"
            /\ mask_sep # "#" =>
                 SameElementsButMasked(segments[i], masked_segments[i], mask_sep)
            /\ TooShortToMask(segments[i], mask_sep) => masked_segments[i] = segments[i]

\* a payload holding a BEG segment too short to mask and a segment that was masked
C10_Witness ==
    /\ pc = "mask_returned"
    /\ mask_sep = "*"
    /\ Len(masked_segments) = Len(segments)
    /\ \E i \in 1..Len(segments) : segments[i] = BegShort("*")
    /\ \E i \in 1..Len(segments) : masked_segments[i] # segments[i]

(***************************************************************************)
(* parse_edi run on one document, one loop iteration per step.             *)
(***************************************************************************)
ParsePool ==
    {IsaSeg("*", <<"S">>, <<"1">>), IsaSeg("*", <<"T", " ">>, <<"2">>),
     GsSeg("*", <<"X">>), StSeg("*"), SeSeg("*"), N1Seg("*"), <<"*", "N">>}

\* a document: its segments, each followed by the segment terminator '~'
DocOf(segs) == join("~", segs \o <<EmptyStr>>)

InitParse ==
    /\ pc = "parse_call"
    /\ edi_content \in {DocOf(segs) : segs \in SeqsOf(ParsePool, 1, MaxSegs)}
    /\ data_element_sep = "" /\ parsed = EmptyDict
    /\ capture_payload = FALSE /\ seg_idx = 0
    /\ IdleMask /\ IdleCompare /\ IdleBatch

\* no segment starts with ISA (ValueError), or the ISA segment has no 4th
\* character (IndexError): parse_edi raises
ParseRaise ==
    /\ pc = "parse_call"
    /\ parse_raises(edi_content) # "None"
    /\ pc' = "parse_raised"
    /\ UNCHANGED <<parseVars, maskVars, compareVars, batchVars>>

\* the delimiters are read from the first ISA segment and results is created
ParseLocateIsa ==
    /\ pc = "parse_call"
    /\ parse_raises(edi_content) = "None"
    /\ parsed' = parse_start(edi_content).results
    /\ data_element_sep' = parsed'.separators.data_element
    /\ capture_payload' = parse_start(edi_content).capture_payload
    /\ seg_idx' = 1
    /\ pc' = "parse_loop"
    /\ UNCHANGED <<edi_content, maskVars, compareVars, batchVars>>

\* one iteration of "for segment in segments"
ParseSegment ==
    /\ pc = "parse_loop"
    /\ seg_idx <= Len(split(edi_content, "~"))
    /\ LET st == parse_segment([results |-> parsed, capture_payload |-> capture_payload],
                               split(edi_content, "~")[seg_idx], data_element_sep)
       IN /\ parsed' = st.results
          /\ capture_payload' = st.capture_payload
    /\ seg_idx' = seg_idx + 1
    /\ UNCHANGED <<pc, edi_content, data_element_sep, maskVars, compareVars, batchVars>>

\* return results
ParseReturn ==
    /\ pc = "parse_loop"
    /\ seg_idx > Len(split(edi_content, "~"))
    /\ pc' = "parse_returned"
    /\ UNCHANGED <<parseVars, maskVars, compareVars, batchVars>>

NextParse == ParseRaise \/ ParseLocateIsa \/ ParseSegment \/ ParseReturn
SpecParse == InitParse /\ [][NextParse]_vars

\* the stepwise run returns what the operator parse_edi computes
ParseStepsAgree == pc = "parse_returned" => parsed = parse_edi(edi_content)

Segs == split(edi_content, "~")
TagOf(i) == split(Segs[i], data_element_sep)[1]

\* the segments of the document at the indices in S, in document order
RECURSIVE SegsAt(_, _)
SegsAt(S, from) ==
    IF from > Len(Segs) THEN << >>
    ELSE (IF from \in S THEN <<Segs[from]>> ELSE << >>) \o SegsAt(S, from + 1)

\* segment i follows an ST segment with no SE segment in between
AfterOpenST(i) ==
    \E j \in 1..(i-1) : TagOf(j) = TagST /\ \A m \in (j+1)..(i-1) : TagOf(m) # TagSE

\* C7 as stated: the payload is exactly the non-empty segments lying strictly
\* between an ST segment and the next SE segment (ST and SE excluded), verbatim
\* and in document order.
C7_AsStated ==
    pc = "parse_returned" =>
        parsed.inner_payload =
            SegsAt({i \in 1..Len(Segs) :
                      /\ Segs[i] # EmptyStr
                      /\ TagOf(i) \notin {TagST, TagSE}
                      /\ AfterOpenST(i)
                      /\ \E m \in (i+1)..Len(Segs) : TagOf(m) = TagSE}, 1)

\* C7 amended: the payload is exactly the segments that follow an ST segment
\* with no SE segment in between (whether or not an SE follows later) and whose
\* tag is non-empty and none of ISA, GS, ST, SE, verbatim and in document order.
C7_PayloadIsCapturedSegments ==
    pc = "parse_returned" =>
        parsed.inner_payload =
            SegsAt({i \in 1..Len(Segs) :
                      /\ TagOf(i) \notin {EmptyStr, TagISA, TagGS, TagST, TagSE}
                      /\ AfterOpenST(i)}, 1)

\* a parse that captured the one segment lying between an ST and an SE segment
C7_Witness ==
    /\ pc = "parse_returned"
    /\ \E j, i, m \in 1..Len(Segs) :
         /\ j < i /\ i < m
         /\ TagOf(j) = TagST /\ TagOf(m) = TagSE
         /\ parsed.inner_payload = <<Segs[i]>>

\* C9 as stated: once the Interchange Header has been populated from an ISA
\* segment, no later segment of the same document changes it.
C9_HeaderNeverMutated ==
    [][(pc = "parse_loop" /\ DOMAIN parsed.isa # {}) => parsed'.isa = parsed.isa]_vars

(***************************************************************************)
(* compare_pair run on two documents.                                      *)
(***************************************************************************)
\* ISA, GS, ST, the payload, SE, each followed by '~'; the envelope is
\* delimited by sep, the payload segments are taken as given
EdiDoc(sep, snd, g2, payload) ==
    DocOf(<<IsaSeg(sep, snd, <<"1">>), GsSeg(sep, g2), StSeg(sep)>>
          \o payload \o <<SeSeg(sep)>>)

DocPayloadPool ==
    {DtmTimeSeg("*", <<"2", "4">>, <<"9">>), DtmTimeSeg("*", <<"2", "5">>, <<"8">>),
     DtmTimeSeg("*", <<"4">>, <<"9">>), N1Seg("*")}

\* a text with no ISA segment
NoIsaDoc == DocOf(<<N1Seg("*")>>)

CompareDocs ==
    {EdiDoc(e[1], e[2], e[3], p) :
        e \in {<<"*", <<"S">>, <<"X">>>>, <<"*", <<"S", " ">>, <<"X">>>>,
               <<"*", <<"T">>, <<"Y">>>>, <<"|", <<"S">>, <<"X">>>>},
        p \in SeqsOf(DocPayloadPool, 0, MaxDocPayload)}
    \cup {NoIsaDoc}

InitCompare ==
    /\ pc = "compare_call"
    /\ file1_content \in CompareDocs
    /\ file2_content \in CompareDocs
    /\ compare = EmptyDict
    /\ IdleParse /\ IdleMask /\ IdleBatch

\* compare = compare_pair(file1.name, file2.name, file1_content, file2_content)
ComparePairReturn ==
    /\ pc = "compare_call"
    /\ compare_raises(file1_content, file2_content) = "None"
    /\ compare' = compare_pair(<<"1">>, <<"2">>, file1_content, file2_content)
    /\ pc' = "compare_returned"
    /\ UNCHANGED <<file1_content, file2_content, parseVars, maskVars, batchVars>>

\* parse_edi raises on one of the two texts and compare_pair propagates it
ComparePairRaise ==
    /\ pc = "compare_call"
    /\ compare_raises(file1_content, file2_content) # "None"
    /\ pc' = "compare_raised"
    /\ UNCHANGED <<compareVars, parseVars, maskVars, batchVars>>

NextCompare == ComparePairReturn \/ ComparePairRaise
SpecCompare == InitCompare /\ [][NextCompare]_vars

\* the element delimiter of a document that parses
SepOf(content) == separators_of(content).data_element

\* DTM segments s1, s2 (split on sep) equal but for their elements 2 and 3
DtmSameButDates(s1, s2, sep) ==
    LET e1 == split(s1, sep)
        e2 == split(s2, sep)
    IN /\ e1[1] = TagDTM /\ e2[1] = TagDTM
       /\ Len(e1) = Len(e2)
       /\ \A j \in 1..Len(e1) : j \notin {3, 4} => e1[j] = e2[j]

\* as DtmSameButDates, each date/time value as long as the one it stands against
DtmSameButEqualLengthDates(s1, s2, sep) ==
    /\ DtmSameButDates(s1, s2, sep)
    /\ \A j \in 1..Len(split(s1, sep)) :
         Len(split(s1, sep)[j]) = Len(split(s2, sep)[j])

\* the two texts have the same delimiter and the same segments, but for
\* segment pairs related by Rel
SameButFor(Rel(_, _, _), c1, c2) ==
    LET s1 == split(c1, "~")
        s2 == split(c2, "~")
    IN /\ SepOf(c1) = SepOf(c2)
       /\ Len(s1) = Len(s2)
       /\ \A i \in 1..Len(s1) : s1[i] = s2[i] \/ Rel(s1[i], s2[i], SepOf(c1))

\* C4 as stated: two documents that differ only in the date values of their
\* DTM segments (everything else, delimiters included, identical) compare
\* with payload_match = true.
C4_AsStated ==
    pc = "compare_returned" =>
        (SameButFor(DtmSameButDates, file1_content, file2_content)
            => compare.masked_match)

\* C4 amended: two documents that differ only in the date/time values of
\* their DTM segments, each value as long as the value it replaces, compare
\* with payload_match = true.
C4_EqualLengthDatesMatch ==
    pc = "compare_returned" =>
        (SameButFor(DtmSameButEqualLengthDates, file1_content, file2_content)
            => compare.masked_match)

\* two different documents that differ only in equally long DTM dates were compared
C4_Witness ==
    /\ pc = "compare_returned"
    /\ file1_content # file2_content
    /\ SameButFor(DtmSameButEqualLengthDates, file1_content, file2_content)
    /\ compare.masked_match

\* the parsed ISA fields, GS fields and payload of the two texts are the same
SameFieldsAndPayload(c1, c2) ==
    /\ parse_edi(c1).isa = parse_edi(c2).isa
    /\ parse_edi(c1).gs = parse_edi(c2).gs
    /\ parse_edi(c1).inner_payload = parse_edi(c2).inner_payload

AllMatch == compare.isa_match /\ compare.gs_match /\ compare.masked_match

\* C6 as stated: two documents with the same ISA/GS fields and the same
\* payload compare with header_match = group_match = payload_match = true.
C6_AsStated ==
    pc = "compare_returned" =>
        (SameFieldsAndPayload(file1_content, file2_content) => AllMatch)

\* C6 amended: two documents with the same ISA/GS fields, the same payload
\* and the same element delimiter compare with all three matches true.
C6_SameDelimiterAllMatch ==
    pc = "compare_returned" =>
        (SameFieldsAndPayload(file1_content, file2_content)
            /\ SepOf(file1_content) = SepOf(file2_content) => AllMatch)

\* two different texts with the same fields, a non-empty payload and the same
\* delimiter were compared
C6_Witness ==
    /\ pc = "compare_returned"
    /\ file1_content # file2_content
    /\ SameFieldsAndPayload(file1_content, file2_content)
    /\ SepOf(file1_content) = SepOf(file2_content)
    /\ parse_edi(file1_content).inner_payload # << >>
    /\ AllMatch

(***************************************************************************)
(* Batch folder processing.                                                *)
(***************************************************************************)
\* os.path.basename(name)
basename(name) == LET parts == split(name, "/") IN parts[Len(parts)]

\* the concatenation of the strings of a list
RECURSIVE concat(_)
concat(parts) == IF Len(parts) = 0 THEN EmptyStr ELSE Head(parts) \o concat(Tail(parts))

\* re.sub(r'\r?\n', '', text): every "\n" goes, and a "\r" right before one.
\* The text is cut at each "\n"; every piece but the last stood before a "\n"
\* and loses one trailing "\r".
remove_newlines(text) ==
    LET pieces == split(text, "\n")
        cut(i) == IF /\ i < Len(pieces)
                     /\ Len(pieces[i]) > 0
                     /\ pieces[i][Len(pieces[i])] = "\r"
                  THEN SubSeq(pieces[i], 1, Len(pieces[i]) - 1)
                  ELSE pieces[i]
    IN concat([i \in 1..Len(pieces) |-> cut(i)])

\* "_" in filename
has_underscore(filename) == \E i \in 1..Len(filename) : filename[i] = "_"

\* uuid = parts[-1].split(".")[0]
pairing_key(filename) ==
    LET parts == split(filename, "_") IN split(parts[Len(parts)], ".")[1]

\* matching_to_name = f"{parts[0]}bla_{uuid}.txt"
matching_to_name(filename) ==
    split(filename, "_")[1] \o <<"b", "l", "a", "_">> \o pairing_key(filename)
        \o <<".", "t", "x", "t">>

\* the source file passes the three "continue" guards of the loop
is_matched(from_file, to_map) ==
    LET filename == basename(from_file.name) IN
    /\ has_underscore(filename)
    /\ Len(split(filename, "_")) >= 2
    /\ matching_to_name(filename) \in DOMAIN to_map

\* "None", or the exception compare_pair raises for a matched source file
pair_raises(from_file, to_map) ==
    compare_raises(remove_newlines(from_file.content),
                   remove_newlines(to_map[matching_to_name(basename(from_file.name))]))

\* an iteration that records the pair in results and appends nothing
batch_iter_no_append(st, from_file, to_map) ==
    LET filename == basename(from_file.name) IN
    IF ~is_matched(from_file, to_map) THEN st
    ELSE IF pair_raises(from_file, to_map) # "None"
         THEN [st EXCEPT !.raised = pair_raises(from_file, to_map)]
    ELSE [st EXCEPT !.results =
              (pairing_key(filename) :>
                   [from_name |-> filename, to_name |-> matching_to_name(filename)])
              @@ @]

\* one iteration of "for from_file in from_files", on
\* st = [results, all_report_data, raised]
batch_iter(st, from_file, to_map) ==
    LET filename == basename(from_file.name) IN
    IF ~is_matched(from_file, to_map) THEN st
    ELSE IF pair_raises(from_file, to_map) # "None"
         THEN [st EXCEPT !.raised = pair_raises(from_file, to_map)]
    ELSE LET to_name == matching_to_name(filename)
             cmp == compare_pair(filename, to_name,
                                 remove_newlines(from_file.content),
                                 remove_newlines(to_map[to_name]))
         IN [st EXCEPT
                !.results = (pairing_key(filename) :>
                                [from_name |-> filename, to_name |-> to_name]) @@ @,
                !.all_report_data = Append(@, cmp.report_data)]

\* the whole loop over files; an exception ends it
RECURSIVE run_batch(_, _, _)
run_batch(st, files, to_map) ==
    IF Len(files) = 0 \/ st.raised # "None" THEN st
    ELSE run_batch(batch_iter(st, Head(files), to_map), Tail(files), to_map)

\* results = {}; all_report_data = []
batch_start == [results |-> EmptyDict, all_report_data |-> << >>, raised |-> "None"]

GoodDocA == EdiDoc("*", <<"S">>, <<"X">>, <<DtmTimeSeg("*", <<"2", "4">>, <<"9">>)>>)
GoodDocB == EdiDoc("*", <<"S">>, <<"X">>, <<DtmTimeSeg("*", <<"2", "5">>, <<"8">>)>>)
\* GoodDocA as uploaded, with a line break after each segment terminator
GoodDocLines ==
    LET segs == split(GoodDocA, "~") IN
    segs[1] \o <<"~", "\r", "\n">> \o join("~", Tail(segs)) \o <<"\n">>
\* a text whose ISA segment has no 4th character
ShortIsaDoc == DocOf(<<TagISA>>)

Name_a_k == <<"a", "_", "k", ".", "t", "x", "t">>
Name_a_x_k == <<"a", "_", "x", "_", "k", ".", "e", "d", "i">>
Name_b_k == <<"b", "_", "k", ".", "t", "x", "t">>
Name_a_j == <<"a", "_", "j", ".", "t", "x", "t">>
Name_c_j == <<"c", "_", "j", ".", "t", "x", "t">>
Name_n == <<"n", ".", "t", "x", "t">>
Name_abla_k == <<"a", "b", "l", "a", "_", "k", ".", "t", "x", "t">>
Name_bbla_k == <<"b", "b", "l", "a", "_", "k", ".", "t", "x", "t">>
Name_abla_j == <<"a", "b", "l", "a", "_", "j", ".", "t", "x", "t">>
Name_cbla_j == <<"c", "b", "l", "a", "_", "j", ".", "t", "x", "t">>

FromPool ==
    {[name |-> Name_a_k, content |-> GoodDocA],
     [name |-> Name_a_x_k, content |-> GoodDocB],
     [name |-> Name_b_k, content |-> GoodDocA],
     [name |-> Name_a_j, content |-> NoIsaDoc],
     [name |-> Name_c_j, content |-> GoodDocA],
     [name |-> Name_n, content |-> GoodDocA]}

ToPool ==
    (Name_abla_k :> GoodDocLines) @@ (Name_bbla_k :> GoodDocB)
    @@ (Name_abla_j :> GoodDocA) @@ (Name_cbla_j :> ShortIsaDoc)

\* sequences of distinct elements of S with lo..hi elements
DistinctSeqsOf(S, lo, hi) ==
    {q \in SeqsOf(S, lo, hi) : \A i, j \in 1..Len(q) : q[i] = q[j] => i = j}

\* "if from_files and to_files": both uploads are non-empty
Init ==
    /\ pc = "batch_loop"
    /\ from_files \in DistinctSeqsOf(FromPool, 1, MaxFrom)
    /\ \E names \in (SUBSET DOMAIN ToPool) \ {{}} :
         to_files_map = [n \in names |-> ToPool[n]]
    /\ results = batch_start.results
    /\ all_report_data = batch_start.all_report_data
    /\ file_idx = 1
    /\ IdleParse /\ IdleMask /\ IdleCompare

LoopState == [results |-> results, all_report_data |-> all_report_data, raised |-> "None"]

\* "_" not in filename: continue
SkipNoUnderscore ==
    /\ pc = "batch_loop" /\ file_idx <= Len(from_files)
    /\ ~has_underscore(basename(from_files[file_idx].name))
    /\ file_idx' = file_idx + 1
    /\ UNCHANGED <<pc, from_files, to_files_map, results, all_report_data,
                   parseVars, maskVars, compareVars>>

\* matching_to_name not in to_files_map: continue
SkipNoTarget ==
    /\ pc = "batch_loop" /\ file_idx <= Len(from_files)
    /\ has_underscore(basename(from_files[file_idx].name))
    /\ ~is_matched(from_files[file_idx], to_files_map)
    /\ file_idx' = file_idx + 1
    /\ UNCHANGED <<pc, from_files, to_files_map, results, all_report_data,
                   parseVars, maskVars, compareVars>>

\* the pair is compared and recorded
CompareAndRecord ==
    /\ pc = "batch_loop" /\ file_idx <= Len(from_files)
    /\ is_matched(from_files[file_idx], to_files_map)
    /\ pair_raises(from_files[file_idx], to_files_map) = "None"
    /\ LET st == batch_iter(LoopState, from_files[file_idx], to_files_map)
       IN /\ results' = st.results
          /\ all_report_data' = st.all_report_data
    /\ file_idx' = file_idx + 1
    /\ UNCHANGED <<pc, from_files, to_files_map, parseVars, maskVars, compareVars>>

\* compare_pair raises; nothing catches it and the script run ends
CompareRaises ==
    /\ pc = "batch_loop" /\ file_idx <= Len(from_files)
    /\ is_matched(from_files[file_idx], to_files_map)
    /\ batch_iter(LoopState, from_files[file_idx], to_files_map).raised # "None"
    /\ pc' = "batch_raised"
    /\ UNCHANGED <<batchVars, parseVars, maskVars, compareVars>>

\* "if not results": st.warning("No matching file pairs found!"); st.stop()
NoMatches ==
    /\ pc = "batch_loop" /\ file_idx > Len(from_files)
    /\ DOMAIN results = {}
    /\ pc' = "batch_stopped"
    /\ UNCHANGED <<batchVars, parseVars, maskVars, compareVars>>

\* st.success(...) and the reports
Report ==
    /\ pc = "batch_loop" /\ file_idx > Len(from_files)
    /\ DOMAIN results # {}
    /\ pc' = "batch_reported"
    /\ UNCHANGED <<batchVars, parseVars, maskVars, compareVars>>

Next ==
    \/ SkipNoUnderscore \/ SkipNoTarget \/ CompareAndRecord \/ CompareRaises
    \/ NoMatches \/ Report

Spec == Init /\ [][Next]_vars

\* the stepwise loop ends where the operator run_batch ends
BatchStepsAgree ==
    pc \in {"batch_stopped", "batch_reported"} =>
        LET st == run_batch(batch_start, from_files, to_files_map)
        IN st.results = results /\ st.all_report_data = all_report_data

Terminated == pc \in {"batch_stopped", "batch_reported", "batch_raised"}

FileName(i) == basename(from_files[i].name)

\* the Comparison Result of source file i is in the result map's key set and
\* in the aggregate list
Recorded(i) ==
    /\ pairing_key(FileName(i)) \in DOMAIN results
    /\ \E e \in 1..Len(all_report_data) :
         /\ all_report_data[e].file1_name = FileName(i)
         /\ all_report_data[e].file2_name = matching_to_name(FileName(i))

\* C1 as stated: a parse failure aborts only its own pair: when the batch has
\* ended, every matched pair whose two documents parse has its Comparison
\* Result recorded, whether it stands before or after a failing pair.
C1_ParseFailureIsPairScoped ==
    Terminated =>
        \A i \in 1..Len(from_files) :
            (is_matched(from_files[i], to_files_map)
                /\ pair_raises(from_files[i], to_files_map) = "None") => Recorded(i)

\* the files q[1], q[2], ... of from_files, for a permutation q of its indices
Permuted(q) == [i \in 1..Len(from_files) |-> from_files[q[i]]]
IndexPermutations ==
    {q \in [1..Len(from_files) -> 1..Len(from_files)] :
        \A i, j \in 1..Len(from_files) : q[i] = q[j] => i = j}

\* the entries of a list, each with the number of times it occurs
EntryCounts(list) ==
    {<<list[i], Cardinality({j \in 1..Len(list) : list[j] = list[i]})>> :
        i \in 1..Len(list)}

\* C2 as stated: when the loop has consumed a list of source documents, the
\* loop run on any permutation of that list, with the same target documents,
\* ends with the same result map and the same aggregate entries up to order.
C2_OrderIndependent ==
    pc \in {"batch_stopped", "batch_reported"} =>
        \A q \in IndexPermutations :
            LET st == run_batch(batch_start, Permuted(q), to_files_map)
            IN /\ st.results = results
               /\ EntryCounts(st.all_report_data) = EntryCounts(all_report_data)

\* C3 as stated: when the batch has ended, a source document has a Comparison
\* Result recorded if and only if its filename contains "_" and a target
\* named <first part>bla_<key>.txt exists.
C3_RecordedIffMatched ==
    Terminated =>
        \A i \in 1..Len(from_files) :
            Recorded(i) <=> is_matched(from_files[i], to_files_map)

\* C8: the result map is empty exactly when the aggregate list is empty, every
\* key of the result map has an entry in the aggregate list at every step, and
\* the batch ends in the "no matches" state exactly when no comparison ran.
C8_EmptyResultIffNoComparison ==
    /\ (DOMAIN results = {}) <=> (Len(all_report_data) = 0)
    /\ \A k \in DOMAIN results :
         \E e \in 1..Len(all_report_data) :
            /\ pairing_key(all_report_data[e].file1_name) = k
            /\ has_underscore(all_report_data[e].file1_name)
    /\ pc = "batch_stopped" => Len(all_report_data) = 0
    /\ pc = "batch_reported" => Len(all_report_data) > 0

\* a batch that ended with two comparisons recorded under one pairing key
C8_Witness ==
    /\ pc = "batch_reported"
    /\ Len(all_report_data) = 2
    /\ Cardinality(DOMAIN results) = 1

====
